---- MODULE Spec2Model ----
(***************************************************************************)
(* One invocation of lambda_handler (src/lambda_function.py): request      *)
(* intake, URL validation, the retry loop of scrape_url, and the response. *)
(*                                                                         *)
(* Representation.  Python None / a value is the sequence <<>> / <<v>>.    *)
(* A URL string is represented by the components urlparse splits it into   *)
(* (scheme, netloc, path, query); the empty string has every component     *)
(* empty.  Strings the code parses (the retries parameter, the query of    *)
(* the target URL) are sequences of one-character strings.                 *)
(***************************************************************************)
EXTENDS Integers, Sequences, FiniteSets, TLC

(* Largest numeric value of the `retries` request parameter that is tried. *)
MaxRetriesParam == 6

(* Smallest numeric value of the `retries` request parameter.              *)
MinRetriesParam == 0 - 1

None == <<>>

Some(v) == <<v>>

(* Python truthiness of an optional string held as <<>> or <<"...">>.      *)
TruthyStr(o) == IF o = None THEN FALSE ELSE o[1] # ""

(* Python truthiness of an optional character sequence.                   *)
TruthyChars(o) == IF o = None THEN FALSE ELSE o[1] # <<>>

----------------------------------------------------------------------------
(* Text helpers *)

DigitChars == <<"0", "1", "2", "3", "4", "5", "6", "7", "8", "9">>

IsDigit(c) == \E i \in 1..10 : DigitChars[i] = c

DigitVal(c) == (CHOOSE i \in 1..10 : DigitChars[i] = c) - 1

RECURSIVE DigitsVal(_)
DigitsVal(s) ==
    IF s = <<>> THEN 0
    ELSE 10 * DigitsVal(SubSeq(s, 1, Len(s) - 1)) + DigitVal(s[Len(s)])

AllDigits(s) == s # <<>> /\ \A i \in 1..Len(s) : IsDigit(s[i])

(* int(s): [ok |-> FALSE] stands for ValueError.                           *)
PyInt(s) ==
    IF s # <<>> /\ s[1] \in {"-", "+"}
    THEN IF AllDigits(Tail(s))
         THEN [ok |-> TRUE,
               val |-> IF s[1] = "-" THEN 0 - DigitsVal(Tail(s))
                       ELSE DigitsVal(Tail(s))]
         ELSE [ok |-> FALSE, val |-> 0]
    ELSE IF AllDigits(s) THEN [ok |-> TRUE, val |-> DigitsVal(s)]
         ELSE [ok |-> FALSE, val |-> 0]

RECURSIVE NatStr(_)
NatStr(n) ==
    IF n < 10 THEN <<DigitChars[n + 1]>>
    ELSE NatStr(n \div 10) \o <<DigitChars[(n % 10) + 1]>>

(* The decimal text a client sends for the integer n.                      *)
IntStr(n) == IF n < 0 THEN <<"-">> \o NatStr(0 - n) ELSE NatStr(n)

(* s.split(sep) for a one-character separator.                             *)
RECURSIVE Split(_, _)
Split(s, sep) ==
    IF \A i \in 1..Len(s) : s[i] # sep THEN <<s>>
    ELSE LET k == CHOOSE i \in 1..Len(s) :
                      s[i] = sep /\ \A j \in 1..(i - 1) : s[j] # sep
         IN <<SubSeq(s, 1, k - 1)>> \o Split(SubSeq(s, k + 1, Len(s)), sep)

(* dict(seq_of_strings) raises ValueError unless every element has         *)
(* exactly two items (characters).                                         *)
DictRaises(parts) == \E i \in 1..Len(parts) : Len(parts[i]) # 2

(* Line 292: query_params raises when the query is non-empty and some      *)
(* '&'-separated component is not exactly two characters long.             *)
QueryParamsRaises(u) ==
    IF u.query # <<>> THEN DictRaises(Split(u.query, "&")) ELSE FALSE

----------------------------------------------------------------------------
(* Inputs *)

Url(s, n, p, q) == [scheme |-> s, netloc |-> n, path |-> p, query |-> q]

UPlain == Url("https", "site.example", "/page", <<>>)

USearch == Url("http", "site.example", "/search", <<"q", "=", "1">>)

UPairs == Url("https", "site.example", "/", <<"a", "b", "&", "c", "d">>)

UNoScheme == Url("", "", "site.example/page", <<>>)

UNoHost == Url("https", "", "/page", <<>>)

UFtp == Url("ftp", "site.example", "/f", <<>>)

UEmpty == Url("", "", "", <<>>)

TargetUrls == {UPlain, USearch, UPairs, UNoScheme, UNoHost, UFtp, UEmpty}

BodyUrls == {UPlain, UNoScheme}

RetriesTexts ==
    {IntStr(n) : n \in MinRetriesParam..MaxRetriesParam}
        \cup {<<>>, <<"a", "b", "c">>}

UserIds == {"", "u1"}

Opt(S) == {None} \cup {Some(v) : v \in S}

QueryParams == [url : Opt(TargetUrls), retries : Opt(RetriesTexts),
                user_id : Opt(UserIds)]

(* event['body']: absent/None, the empty string, text that is not JSON,   *)
(* JSON that is not an object (a list, null), or a JSON object.            *)
Bodies ==
    {[kind |-> k, url |-> None, user_id |-> None] :
        k \in {"absent", "empty", "notjson", "list", "null"}}
    \cup [kind : {"object"}, url : Opt(BodyUrls), user_id : Opt({"u1"})]

Events ==
    [httpMethod : {"POST"}, qs : Opt(QueryParams), body : Bodies]
    \cup [httpMethod : {"OPTIONS"}, qs : {None},
          body : {b \in Bodies : b.kind \in {"absent", "object"}}]

----------------------------------------------------------------------------
(* Request intake of lambda_handler, as functions of the event *)

(* `'queryStringParameters' in event and event['queryStringParameters']`:  *)
(* the key is present and the dict is not empty.                           *)
QSTruthy(e) ==
    IF e.qs = None THEN FALSE
    ELSE e.qs[1] # [url |-> None, retries |-> None, user_id |-> None]

(* `'body' in event and event['body']`.                                    *)
BodyTruthy(e) == e.body.kind \notin {"absent", "empty"}

(* `not url` for an optional URL: None or the empty string.                *)
FalsyUrl(u) == IF u = None THEN TRUE ELSE u[1] = UEmpty

(* Lines 343-355.  raised: body.get on a JSON value that is not an object  *)
(* raises AttributeError, which the except clause does not catch.          *)
ResolveUrl(e) ==
    LET q == IF QSTruthy(e) THEN e.qs[1].url ELSE None
    IN IF FalsyUrl(q) /\ BodyTruthy(e)
       THEN CASE e.body.kind = "notjson" -> [raised |-> FALSE, url |-> q]
              [] e.body.kind \in {"list", "null"} ->
                     [raised |-> TRUE, url |-> q]
              [] OTHER -> [raised |-> FALSE, url |-> e.body.url]
       ELSE [raised |-> FALSE, url |-> q]

(* Lines 368-386, for a URL that passed `not url`.                         *)
ValidateUrl(u) ==
    IF u.scheme = "" \/ u.netloc = "" THEN "Invalid URL format"
    ELSE IF u.scheme \notin {"http", "https"} THEN "Invalid URL scheme"
    ELSE "ok"

Min(a, b) == IF a < b THEN a ELSE b

(* Lines 389-399: max_retries and user_id from the query parameters.  A    *)
(* ValueError from int() leaves the try block before user_id is read.      *)
QueryOptions(e) ==
    IF QSTruthy(e)
    THEN LET rp == e.qs[1].retries
         IN IF TruthyChars(rp)
            THEN IF PyInt(rp[1]).ok
                 THEN [max_retries |-> Min(PyInt(rp[1]).val, 5),
                       user_id |-> e.qs[1].user_id]
                 ELSE [max_retries |-> 3, user_id |-> None]
            ELSE [max_retries |-> 3, user_id |-> e.qs[1].user_id]
    ELSE [max_retries |-> 3, user_id |-> None]

(* Lines 401-407.                                                          *)
ResolveUser(e) ==
    LET q == QueryOptions(e).user_id
    IN IF ~TruthyStr(q) /\ BodyTruthy(e)
       THEN CASE e.body.kind = "notjson" -> [raised |-> FALSE, user_id |-> q]
              [] e.body.kind \in {"list", "null"} ->
                     [raised |-> TRUE, user_id |-> q]
              [] OTHER -> [raised |-> FALSE, user_id |-> e.body.user_id]
       ELSE [raised |-> FALSE, user_id |-> q]

(* The URL reached the parameter stage: resolved, non-empty and valid.     *)
UrlAccepted(e) ==
    /\ ~ResolveUrl(e).raised
    /\ ~FalsyUrl(ResolveUrl(e).url)
    /\ ValidateUrl(ResolveUrl(e).url[1]) = "ok"

create_response(status, body) == [statusCode |-> status, body |-> body]

(* The 500 body without the URL it is about.                               *)
FailureBodyWithoutUrl(u) == [error |-> "Failed to scrape the URL"]

(* Lines 425-434: the body of the 500 response.                            *)
FailureBody(u) == [error |-> "Failed to scrape the URL", url |-> u]

----------------------------------------------------------------------------
(* Backoff tiers of scrape_url: the arguments of random.uniform *)

PreRequestDelay == <<1, 3>>

TimeoutBackoff == <<2, 5>>

ConnectionBackoff == <<3, 7>>

RateLimitBackoff == <<10, 20>>

UnexpectedBackoff == <<1, 3>>

(* HTTP error statuses a GET is answered with.                             *)
ErrorStatuses == {401, 403, 404, 429, 500}

(* Off by one: the loop body runs once more than max_retries.              *)
InRangeInclusive(i, n) == i <= n

(* Line 73: `for attempt in range(max_retries)` runs the body.             *)
InRange(i, n) == i < n

(* Off by one: the last attempt is also followed by a backoff.             *)
AttemptsRemainOffByOne(i, n) == i < n

(* Lines 297, 306, 327: `attempt < max_retries - 1`.                       *)
AttemptsRemain(i, n) == i < n - 1

(* A 403 handled like a 429.                                               *)
IsRateLimitedOrForbidden(status) == status \in {429, 403}

(* Line 315: the HTTP error statuses that are retried.                     *)
IsRateLimited(status) == status = 429

----------------------------------------------------------------------------
(* Header profile, page processing and persistence, as functions *)

(* Lines 34-39: the User-Agent pool, by position.                          *)
UserAgents == 1..4

(* Lines 41-57: the profile for a drawn User-Agent; the other headers are  *)
(* fixed.                                                                  *)
get_realistic_headers(ua) == [UserAgent |-> ua, Accept |-> "text/html"]

(* Line 263: the content cap.                                              *)
ContentCap == 2000

(* Line 264: the link cap.                                                 *)
LinksCap == 15

(* An href is the sequence of its lexical pieces; the first piece is its   *)
(* leading "/", "http://", "https://" or other prefix.                     *)
StartsWith(h, p) == IF h = <<>> THEN FALSE ELSE h[1] = p

IsHttp(h) == StartsWith(h, "http://") \/ StartsWith(h, "https://")

(* s[:n]                                                                   *)
Take(s, n) == SubSeq(s, 1, Min(n, Len(s)))

(* Lines 146-154.  Anchors without an href are not visited.  A             *)
(* '/'-prefixed href is rewritten in the if branch and not appended: the   *)
(* append is in the elif branch.                                           *)
RECURSIVE CollectLinks(_)
CollectLinks(anchors) ==
    IF anchors = <<>> THEN <<>>
    ELSE LET a == Head(anchors)
             rest == CollectLinks(Tail(anchors))
         IN IF a = None THEN rest
            ELSE IF StartsWith(a[1], "/") THEN rest
            ELSE IF IsHttp(a[1]) THEN <<a[1]>> \o rest
            ELSE rest

(* No deduplication at all.                                                *)
UniqueKeepsAll(links) == links

(* Lines 157-162: first occurrences, in order.                             *)
RECURSIVE Unique(_)
Unique(links) ==
    IF links = <<>> THEN <<>>
    ELSE LET front == Unique(SubSeq(links, 1, Len(links) - 1))
             last == links[Len(links)]
         IN IF \E i \in 1..Len(front) : front[i] = last THEN front
            ELSE Append(front, last)

(* The cut without the ellipsis marker.                                    *)
ContentWithoutMarker(text) == Take(text, ContentCap)

(* Line 263.                                                               *)
Content(text) ==
    IF Len(text) > ContentCap
    THEN SubSeq(text, 1, ContentCap) \o <<".", ".", ".">>
    ELSE text

(* Lines 258-293: the result dict of a processed page (the fields the      *)
(* properties are about).                                                  *)
BuildResult(u, p) ==
    [url |-> u,
     status_code |-> 200,
     scraper_version |-> "2.0",
     content |-> Content(p.text),
     links |-> Take(Unique(CollectLinks(p.anchors)), LinksCap),
     content_length |-> Len(p.text),
     links_count |-> Len(Unique(CollectLinks(p.anchors))),
     character_count |-> Len(p.text)]

(* Lines 437-444: the handler stamps the metadata again.                   *)
Restamp(r) == [r EXCEPT !.scraper_version = "2.0"]

(* What the call at lines 448-449 does: save_scrape_data returns True,     *)
(* returns False, or an exception reaches the handler's except clause.     *)
SaveOutcomes == {"saved", "failed", "raised"}

(* project_id recorded whatever the outcome of the write.                  *)
AdvisoryAlwaysProjectId(o) ==
    IF o = "saved"
    THEN [project_id |-> "proj", saved_to_dynamodb |-> TRUE]
    ELSE [project_id |-> "proj", saved_to_dynamodb |-> FALSE,
          dynamodb_error |-> "Failed to save data"]

(* Lines 451-463: the advisory fields for a save outcome.                  *)
Advisory(o) ==
    IF o = "saved"
    THEN [project_id |-> "proj", saved_to_dynamodb |-> TRUE]
    ELSE [saved_to_dynamodb |-> FALSE,
          dynamodb_error |-> IF o = "failed" THEN "Failed to save data"
                             ELSE "exception"]

(* Lines 437-465: the body of the 200 response, a list of one dict.        *)
SuccessBody(r, o) == <<Advisory(o) @@ Restamp(r)>>

(* The pages of the model *)

HAbout == <<"/", "about">>

HXa == <<"https://", "x.com", "/a">>

HY == <<"http://", "y.org">>

HMail == <<"mailto:", "me">>

TextOfLen(n) == [i \in 1..n |-> i]

UMoved == Url("https", "www.site.example", "/page", <<>>)

(* The page of the specification's example.                                *)
ExamplePage ==
    [anchors |-> <<Some(HAbout), Some(HXa), Some(HXa)>>,
     text |-> TextOfLen(3),
     url_final |-> UPlain]

(* The pages a 2xx response carries in the request model.                  *)
Pages == {ExamplePage}

----------------------------------------------------------------------------
VARIABLES
    event,        \* the inbound event
    pc,           \* position in lambda_handler / scrape_url
    url,          \* the resolved URL passed to scrape_url
    user_id,      \* the resolved caller identifier
    max_retries,  \* the max_retries argument of scrape_url
    attempt,      \* loop index of scrape_url = GETs issued so far
    outcomes,     \* what each GET met, in order
    sleeps,       \* time.sleep calls: [at |-> GETs issued before, lo, hi]
    extractions,  \* times the page-processing code (lines 87-293) started
    result,       \* return value of scrape_url: None or <<dict>>
    puts,         \* calls of save_scrape_data
    response,     \* return value of lambda_handler: None or <<response>>
    saved,        \* outcome of the save at lines 447-463: None or <<o>>
    headers,      \* session.headers: None or <<profile>>
    profiles,     \* calls of get_realistic_headers
    sent,         \* the headers each GET was sent with, in order
    page          \* the page of the last 2xx response: None or <<page>>

vars == <<event, pc, url, user_id, max_retries, attempt, outcomes, sleeps,
          extractions, result, puts, response, saved, headers, profiles,
          sent, page>>

fetchVars == <<attempt, outcomes, sleeps, extractions, result, puts, saved,
               headers, profiles, sent, page>>

Init ==
    /\ event \in Events
    /\ pc = "intake"
    /\ url = UEmpty
    /\ user_id = ""
    /\ max_retries = 3
    /\ attempt = 0
    /\ outcomes = <<>>
    /\ sleeps = <<>>
    /\ extractions = 0
    /\ result = None
    /\ puts = 0
    /\ response = None
    /\ saved = None
    /\ headers = None
    /\ profiles = 0
    /\ sent = <<>>
    /\ page = None

Respond(status, body) ==
    /\ response' = Some(create_response(status, body))
    /\ pc' = "done"

(* Lines 339-340.                                                          *)
Options ==
    /\ pc = "intake"
    /\ event.httpMethod = "OPTIONS"
    /\ Respond(200, [message |-> "OK"])
    /\ UNCHANGED <<event, url, user_id, max_retries>>
    /\ UNCHANGED fetchVars

(* Lines 358-366.                                                          *)
RejectMissingUrl ==
    /\ pc = "intake"
    /\ event.httpMethod # "OPTIONS"
    /\ ~ResolveUrl(event).raised
    /\ FalsyUrl(ResolveUrl(event).url)
    /\ Respond(400, [error |-> "Missing URL parameter"])
    /\ UNCHANGED <<event, url, user_id, max_retries>>
    /\ UNCHANGED fetchVars

(* Lines 369-386.                                                          *)
RejectInvalidUrl ==
    /\ pc = "intake"
    /\ event.httpMethod # "OPTIONS"
    /\ ~ResolveUrl(event).raised
    /\ ~FalsyUrl(ResolveUrl(event).url)
    /\ ValidateUrl(ResolveUrl(event).url[1]) # "ok"
    /\ Respond(400, [error |-> ValidateUrl(ResolveUrl(event).url[1])])
    /\ UNCHANGED <<event, url, user_id, max_retries>>
    /\ UNCHANGED fetchVars

(* Lines 410-418.                                                          *)
RejectMissingUser ==
    /\ pc = "intake"
    /\ event.httpMethod # "OPTIONS"
    /\ UrlAccepted(event)
    /\ ~ResolveUser(event).raised
    /\ ~TruthyStr(ResolveUser(event).user_id)
    /\ Respond(400, [error |-> "Missing user_id parameter"])
    /\ UNCHANGED <<event, url, user_id, max_retries>>
    /\ UNCHANGED fetchVars

(* Lines 353 and 405: AttributeError from body.get escapes the handler.    *)
RaiseAttributeError ==
    /\ pc = "intake"
    /\ event.httpMethod # "OPTIONS"
    /\ IF ResolveUrl(event).raised THEN TRUE
       ELSE UrlAccepted(event) /\ ResolveUser(event).raised
    /\ pc' = "raised"
    /\ UNCHANGED <<event, url, user_id, max_retries, response>>
    /\ UNCHANGED fetchVars

(* Lines 421-422: the call scrape_url(url, max_retries).                   *)
CallScrape ==
    /\ pc = "intake"
    /\ event.httpMethod # "OPTIONS"
    /\ UrlAccepted(event)
    /\ ~ResolveUser(event).raised
    /\ TruthyStr(ResolveUser(event).user_id)
    /\ url' = ResolveUrl(event).url[1]
    /\ user_id' = ResolveUser(event).user_id[1]
    /\ max_retries' = QueryOptions(event).max_retries
    /\ pc' = "scrape"
    /\ UNCHANGED <<event, response>>
    /\ UNCHANGED fetchVars

----------------------------------------------------------------------------
(* scrape_url *)

(* Lines 62-71: session, header profile, the pre-request delay.            *)
ScrapeSetup ==
    /\ pc = "scrape"
    /\ \E ua \in UserAgents : headers' = Some(get_realistic_headers(ua))
    /\ profiles' = profiles + 1
    /\ sleeps' = Append(sleeps, [at |-> 0, lo |-> PreRequestDelay[1],
                                 hi |-> PreRequestDelay[2]])
    /\ pc' = "loop"
    /\ UNCHANGED <<event, url, user_id, max_retries, attempt, outcomes,
                   extractions, result, puts, response, saved, sent, page>>

(* Lines 78-84: one session.get and raise_for_status, met with outcome o.  *)
Get(o) ==
    /\ pc = "loop"
    /\ InRange(attempt, max_retries)
    /\ outcomes' = Append(outcomes, o)
    /\ sent' = Append(sent, headers)
    /\ attempt' = attempt + 1
    /\ UNCHANGED <<saved, headers, profiles>>

(* The pre-request delay placed inside the loop: taken again on a retry.   *)
SleepAndContinueWithDelay(tier) ==
    /\ sleeps' = sleeps \o
           <<[at |-> attempt + 1, lo |-> tier[1], hi |-> tier[2]],
             [at |-> attempt + 1, lo |-> PreRequestDelay[1],
              hi |-> PreRequestDelay[2]]>>
    /\ pc' = "loop"
    /\ result' = None

(* time.sleep(random.uniform(tier)) followed by `continue`.                *)
SleepAndContinue(tier) ==
    /\ sleeps' = Append(sleeps, [at |-> attempt + 1, lo |-> tier[1],
                                 hi |-> tier[2]])
    /\ pc' = "loop"
    /\ result' = None

ReturnNone ==
    /\ pc' = "returned"
    /\ result' = None
    /\ UNCHANGED sleeps

(* The handlers at lines 295-302, 304-311 and 325-331.                     *)
RetryOrFail(tier) ==
    IF AttemptsRemain(attempt, max_retries)
    THEN SleepAndContinue(tier)
    ELSE ReturnNone

(* Lines 87-293: a 2xx response is processed and the result returned.      *)
AttemptSuccess ==
    /\ Get([kind |-> "response", status |-> 200])
    /\ ~QueryParamsRaises(url)
    /\ extractions' = extractions + 1
    /\ \E p \in Pages :
          /\ page' = Some(p)
          /\ result' = Some(BuildResult(url, p))
    /\ pc' = "returned"
    /\ UNCHANGED <<event, url, user_id, max_retries, sleeps, puts, response>>

(* Lines 87-292 then 325-331: building the result dict raises ValueError   *)
(* at line 292 inside the try block; `except Exception` handles it.        *)
AttemptProcessingError ==
    /\ Get([kind |-> "response", status |-> 200])
    /\ QueryParamsRaises(url)
    /\ extractions' = extractions + 1
    /\ \E p \in Pages : page' = Some(p)
    /\ RetryOrFail(UnexpectedBackoff)
    /\ UNCHANGED <<event, url, user_id, max_retries, puts, response>>

(* Lines 295-302.                                                          *)
AttemptTimeout ==
    /\ Get([kind |-> "Timeout", status |-> 0])
    /\ RetryOrFail(TimeoutBackoff)
    /\ UNCHANGED <<event, url, user_id, max_retries, extractions, puts,
                   response, page>>

(* Lines 304-311.                                                          *)
AttemptConnectionError ==
    /\ Get([kind |-> "ConnectionError", status |-> 0])
    /\ RetryOrFail(ConnectionBackoff)
    /\ UNCHANGED <<event, url, user_id, max_retries, extractions, puts,
                   response, page>>

(* Lines 313-323.                                                          *)
AttemptHTTPError ==
    \E status \in ErrorStatuses :
        /\ Get([kind |-> "HTTPError", status |-> status])
        /\ IF IsRateLimited(status)
           THEN SleepAndContinue(RateLimitBackoff)
           ELSE ReturnNone
        /\ UNCHANGED <<event, url, user_id, max_retries, extractions, puts,
                       response, page>>

(* Lines 325-331: session.get raised some other exception.                 *)
AttemptUnexpected ==
    /\ Get([kind |-> "Exception", status |-> 0])
    /\ RetryOrFail(UnexpectedBackoff)
    /\ UNCHANGED <<event, url, user_id, max_retries, extractions, puts,
                   response, page>>

(* Line 333: the range is exhausted.                                       *)
LoopExhausted ==
    /\ pc = "loop"
    /\ ~InRange(attempt, max_retries)
    /\ pc' = "returned"
    /\ result' = None
    /\ UNCHANGED <<event, url, user_id, max_retries, attempt, outcomes,
                   sleeps, extractions, puts, response, saved, headers,
                   profiles, sent, page>>

----------------------------------------------------------------------------
(* lambda_handler after scrape_url returned *)

(* Lines 424-434.                                                          *)
RespondFailure ==
    /\ pc = "returned"
    /\ result = None
    /\ Respond(500, FailureBody(url))
    /\ UNCHANGED <<event, url, user_id, max_retries>>
    /\ UNCHANGED fetchVars

(* Lines 437-465: the metadata is stamped, save_scrape_data is called     *)
(* once, the result is annotated and returned with status 200.             *)
SaveAndRespond ==
    /\ pc = "returned"
    /\ result # None
    /\ \E o \in SaveOutcomes :
          /\ puts' = puts + 1
          /\ saved' = Some(o)
          /\ Respond(200, SuccessBody(result[1], o))
    /\ UNCHANGED <<event, url, user_id, max_retries, attempt, outcomes,
                   sleeps, extractions, result, headers, profiles, sent,
                   page>>

Next ==
    \/ Options
    \/ RejectMissingUrl
    \/ RejectInvalidUrl
    \/ RejectMissingUser
    \/ RaiseAttributeError
    \/ CallScrape
    \/ ScrapeSetup
    \/ AttemptSuccess
    \/ AttemptProcessingError
    \/ AttemptTimeout
    \/ AttemptConnectionError
    \/ AttemptHTTPError
    \/ AttemptUnexpected
    \/ LoopExhausted
    \/ RespondFailure
    \/ SaveAndRespond

Spec == Init /\ [][Next]_vars

----------------------------------------------------------------------------
(* The page processing of scrape_url applied to bounded pages *)

(* Longest run of arbitrary anchors at the start of a page.                *)
MaxPrefixAnchors == 3

(* Largest number of further, pairwise distinct absolute links.            *)
MaxDistinctLinks == 17

(* Longest text beyond the content cap.                                    *)
MaxOverCap == 2

(* An anchor: no href attribute, or one of a few hrefs (relative,          *)
(* absolute, other scheme, empty).                                         *)
AnchorChoices == {None, Some(HAbout), Some(HXa), Some(HY), Some(HMail),
                  Some(<<>>)}

AnchorPrefixes ==
    UNION {[1..n -> AnchorChoices] : n \in 0..MaxPrefixAnchors}

DistinctLinks(n) ==
    [i \in 1..n |-> Some(<<"https://", "site.example", "/p", ToString(i)>>)]

TextLengths ==
    0..2 \cup {n \in (ContentCap - 1)..(ContentCap + MaxOverCap) : n >= 0}

ExtractPages ==
    {[anchors |-> pre \o DistinctLinks(n), text |-> TextOfLen(2),
      url_final |-> uf] :
        pre \in AnchorPrefixes, n \in 0..MaxDistinctLinks,
        uf \in {UPlain, UMoved}}
    \cup {[anchors |-> ExamplePage.anchors, text |-> TextOfLen(n),
           url_final |-> UPlain] : n \in TextLengths}

InitExtract ==
    /\ event = [httpMethod |-> "POST",
                qs |-> Some([url |-> Some(UPlain), retries |-> None,
                             user_id |-> Some("u1")]),
                body |-> [kind |-> "absent", url |-> None, user_id |-> None]]
    /\ pc = "extract"
    /\ url = UPlain
    /\ user_id = "u1"
    /\ max_retries = 3
    /\ attempt = 0
    /\ outcomes = <<>>
    /\ sleeps = <<>>
    /\ extractions = 0
    /\ result = None
    /\ puts = 0
    /\ response = None
    /\ saved = None
    /\ headers = None
    /\ profiles = 0
    /\ sent = <<>>
    /\ page \in {Some(p) : p \in ExtractPages}

(* Lines 128-293 on the page at hand.                                      *)
Extract ==
    /\ pc = "extract"
    /\ extractions' = extractions + 1
    /\ result' = Some(BuildResult(url, page[1]))
    /\ pc' = "extracted"
    /\ UNCHANGED <<event, url, user_id, max_retries, attempt, outcomes,
                   sleeps, puts, response, saved, headers, profiles, sent,
                   page>>

NextExtract == Extract

SpecExtract == InitExtract /\ [][NextExtract]_vars

----------------------------------------------------------------------------
(* Vocabulary of the properties *)

(* The handler has finished: it returned a response or an exception        *)
(* escaped it.                                                             *)
Finished == pc \in {"done", "raised"}

(* scrape_url has returned.                                                *)
Returned == pc \in {"returned", "done"} /\ sleeps # <<>>

(* scrape_url was called (every call starts with the pre-request delay).   *)
Invoked == pc \in {"scrape", "loop", "returned"} \/ sleeps # <<>>

StatusCode == IF response = None THEN 0 ELSE response[1].statusCode

(* The sleeps taken after a GET (the backoffs), in order.                  *)
Backoffs == SelectSeq(sleeps, LAMBDA s : s.at >= 1)

Tier(s) == <<s.lo, s.hi>>

(* The URL a request supplies: the query parameter, else the JSON body's.  *)
SuppliedUrl(e) ==
    IF e.qs # None /\ ~FalsyUrl(e.qs[1].url) THEN e.qs[1].url
    ELSE IF e.body.kind = "object" THEN e.body.url
    ELSE None

(* The caller identifier a request supplies.                               *)
SuppliedUser(e) ==
    IF e.qs # None /\ TruthyStr(e.qs[1].user_id) THEN e.qs[1].user_id
    ELSE IF e.body.kind = "object" THEN e.body.user_id
    ELSE None

(* Missing, without scheme or host, or with a scheme other than http(s).   *)
BadUrl(e) ==
    IF FalsyUrl(SuppliedUrl(e)) THEN TRUE
    ELSE \/ SuppliedUrl(e)[1].scheme \notin {"http", "https"}
         \/ SuppliedUrl(e)[1].netloc = ""

(* The failure kinds of the specification's taxonomy.                      *)
KindOf(o) ==
    CASE o.kind = "Timeout" -> "Timeout"
      [] o.kind = "ConnectionError" -> "ConnectionError"
      [] o.kind = "HTTPError" /\ o.status = 429 -> "RateLimited"
      [] o.kind = "HTTPError" /\ o.status \in {401, 403} -> "Forbidden"
      [] o.kind = "HTTPError" /\ o.status \notin {401, 403, 429} -> "HttpError"
      [] OTHER -> "Unknown"

(* The failure kind a report carries, "none" when it carries none.         *)
ReportKind(body) == IF "kind" \in DOMAIN body THEN body.kind ELSE "none"

----------------------------------------------------------------------------
(* C1: no GET is issued beyond max_retries: whenever a GET has been        *)
(* issued, the number of GETs issued so far is at most max_retries (for    *)
(* max_retries <= 0 no GET is issued at all).                              *)
C1_AttemptsBounded == attempt > 0 => attempt <= max_retries

C1_Witness ==
    /\ pc = "done"
    /\ max_retries = 5
    /\ attempt = 5
    /\ event.qs[1].retries = Some(IntStr(6))

(* C2: a 2xx response ends the fetch at that attempt with a success        *)
(* result: it is the last GET, no backoff sleep follows it, and            *)
(* scrape_url returns a result.                                            *)
C2_SuccessEndsFetch ==
    \A i \in 1..Len(outcomes) :
        outcomes[i].kind = "response" =>
            /\ i = Len(outcomes)
            /\ \A j \in 1..Len(sleeps) : sleeps[j].at # i
            /\ pc \in {"returned", "done"}
            /\ result # None

(* C3: an HTTP error status other than 429 ends the fetch at that attempt  *)
(* with a failure: it is the last GET and no backoff sleep follows it; a   *)
(* 403 on the first attempt fails after exactly one attempt.               *)
C3_HTTPErrorIsTerminal ==
    \A i \in 1..Len(outcomes) :
        (outcomes[i].kind = "HTTPError" /\ outcomes[i].status # 429) =>
            /\ i = Len(outcomes)
            /\ attempt = i
            /\ \A j \in 1..Len(sleeps) : sleeps[j].at # i
            /\ pc \in {"returned", "done"}
            /\ result = None
            /\ pc = "done" => StatusCode = 500

C3_Witness ==
    /\ pc = "done"
    /\ max_retries = 5
    /\ outcomes = <<[kind |-> "HTTPError", status |-> 403]>>
    /\ StatusCode = 500

(* The backoff tier the specification gives a retryable failure kind.      *)
TierOf(k) ==
    CASE k = "Timeout" -> <<2, 5>>
      [] k = "ConnectionError" -> <<3, 7>>
      [] k = "Exception" -> <<1, 3>>

AllOfKind(k) ==
    /\ outcomes # <<>>
    /\ \A i \in 1..Len(outcomes) : outcomes[i].kind = k

(* C4: when scrape_url has returned and every attempt failed with the      *)
(* same retryable kind, exactly max_retries attempts were made, exactly    *)
(* max_retries - 1 backoff sleeps were taken, the i-th right after the     *)
(* i-th attempt and from that kind's range, none after the last attempt,   *)
(* and the result is a failure.                                            *)
C4_ExhaustsRetries ==
    \A k \in {"Timeout", "ConnectionError", "Exception"} :
        (Returned /\ AllOfKind(k)) =>
            /\ attempt = max_retries
            /\ Len(Backoffs) = max_retries - 1
            /\ \A i \in 1..Len(Backoffs) :
                   Backoffs[i].at = i /\ Tier(Backoffs[i]) = TierOf(k)
            /\ result = None
            /\ pc = "done" => StatusCode = 500

C4_Witness ==
    /\ pc = "done"
    /\ max_retries = 3
    /\ AllOfKind("Timeout")
    /\ Len(Backoffs) = 2

(* C5: with max_retries >= 2, a 429 on the first attempt followed by a     *)
(* 200 on the second gives a success result after exactly 2 attempts with  *)
(* exactly one backoff sleep, in [10,20], between them.                    *)
C5_RateLimitThenSuccess ==
    ( /\ max_retries >= 2
      /\ Len(outcomes) >= 2
      /\ outcomes[1] = [kind |-> "HTTPError", status |-> 429]
      /\ outcomes[2] = [kind |-> "response", status |-> 200]
      /\ Returned ) =>
        /\ result # None
        /\ attempt = 2
        /\ Backoffs = <<[at |-> 1, lo |-> 10, hi |-> 20]>>

(* C6: a rate-limit backoff sleep is taken only if attempts remain: every  *)
(* sleep in [10,20] is taken after fewer than max_retries GETs.            *)
C6_RateLimitSleepOnlyIfAttemptsRemain ==
    \A j \in 1..Len(sleeps) :
        Tier(sleeps[j]) = <<10, 20>> => sleeps[j].at < max_retries

(* C7: a request whose URL is missing, lacks a scheme or host, or has a    *)
(* scheme other than http/https gets a 400 response, and no GET, no sleep  *)
(* and no persistence write happens.                                       *)
C7_BadUrlRejected ==
    (event.httpMethod # "OPTIONS" /\ BadUrl(event)) =>
        /\ attempt = 0
        /\ sleeps = <<>>
        /\ puts = 0
        /\ ~Invoked
        /\ Finished => StatusCode = 400

(* C8: for a non-OPTIONS request the status code is 200 exactly when       *)
(* scrape_url returned a result, 400 exactly when the URL is missing or    *)
(* invalid or the user identifier is missing (and then scrape_url is not   *)
(* invoked), 500 exactly when scrape_url was invoked and failed.           *)
C8_StatusCodes ==
    (event.httpMethod # "OPTIONS" /\ Finished) =>
        /\ StatusCode = 200 <=> result # None
        /\ StatusCode = 400 <=>
               (BadUrl(event) \/ ~TruthyStr(SuppliedUser(event)))
        /\ StatusCode = 400 => ~Invoked
        /\ StatusCode = 500 <=> (Invoked /\ result = None)

(* C9: whenever scrape_url is invoked its max_retries is in 1..5, and a    *)
(* returned fetch has made at least one attempt.                           *)
C9_RetriesInRange ==
    Invoked =>
        /\ max_retries \in 1..5
        /\ Returned => attempt >= 1

----------------------------------------------------------------------------
(* C11: a run of scrape_url made for a caller identifier is followed by    *)
(* exactly one call of the persistence put, whether it succeeded or        *)
(* failed: when the handler has answered such a run, puts = 1.             *)
C11_PutOncePerRun ==
    (pc = "done" /\ Invoked /\ user_id # "") => puts = 1

(* The query parameters carry a valid URL and a non-empty user_id.         *)
QueryHasUrlAndUser(e) ==
    IF e.qs = None THEN FALSE
    ELSE /\ ~FalsyUrl(e.qs[1].url)
         /\ TruthyStr(e.qs[1].user_id)
         /\ e.qs[1].url[1].scheme \in {"http", "https"}
         /\ e.qs[1].url[1].netloc # ""

(* The `retries` query parameter is present and is not an integer.         *)
MalformedRetries(e) ==
    IF e.qs = None THEN FALSE
    ELSE IF TruthyChars(e.qs[1].retries)
         THEN ~PyInt(e.qs[1].retries[1]).ok
         ELSE FALSE

(* C17: a request whose query parameters carry a valid URL and a           *)
(* non-empty user_id is never answered 400 'Missing user_id parameter',    *)
(* whatever `retries` is; a malformed `retries` leaves max_retries at 3.   *)
C17_MalformedRetriesKeepUser ==
    (event.httpMethod # "OPTIONS" /\ QueryHasUrlAndUser(event)) =>
        /\ ~( /\ StatusCode = 400
              /\ response[1].body.error = "Missing user_id parameter" )
        /\ (MalformedRetries(event) /\ Invoked) => max_retries = 3

(* The body supplies nothing: absent, empty, not JSON, or JSON that is     *)
(* not an object.                                                          *)
BodySuppliesNothing(e) == e.body.kind # "object"

QueryHasUrl(e) == IF e.qs = None THEN FALSE ELSE ~FalsyUrl(e.qs[1].url)

QueryHasUser(e) == IF e.qs = None THEN FALSE ELSE TruthyStr(e.qs[1].user_id)

(* C18: the handler always returns a response with status 200, 400 or      *)
(* 500 and no exception escapes it; when the body supplies nothing and     *)
(* the query lacks the URL or the user_id, the request is answered 400     *)
(* before scrape_url is invoked.                                           *)
C18_AlwaysResponds ==
    Finished =>
        /\ pc = "done"
        /\ StatusCode \in {200, 400, 500}
        /\ ( /\ event.httpMethod # "OPTIONS"
             /\ BodySuppliesNothing(event)
             /\ ~(QueryHasUrl(event) /\ QueryHasUser(event)) ) =>
               (StatusCode = 400 /\ ~Invoked)

----------------------------------------------------------------------------
C13_OneProfileOneDelay ==
    /\ (pc \in {"intake", "scrape"}) =>
           (profiles = 0 /\ sleeps = <<>> /\ sent = <<>>)
    /\ (Invoked /\ pc # "scrape") =>
           /\ profiles = 1
           /\ headers # None
           /\ sleeps[1] = [at |-> 0, lo |-> 1, hi |-> 3]
           /\ \A j \in 2..Len(sleeps) : sleeps[j].at >= 1
           /\ \A j, k \in 1..Len(sleeps) :
                  j # k => sleeps[j].at # sleeps[k].at
           /\ Len(sent) = attempt
           /\ \A i \in 1..Len(sent) : sent[i] = headers

C13_Witness ==
    /\ pc = "done"
    /\ attempt = 3
    /\ Len(sleeps) = 3
    /\ headers = Some(get_realistic_headers(4))

(* The link list the specification describes: every href in document       *)
(* order, '/'-prefixed ones resolved against scheme and host of the final  *)
(* URL, those starting with http:// or https:// kept, first occurrences    *)
(* only, at most 15.                                                       *)
ResolveHref(h, base) ==
    IF StartsWith(h, "/")
    THEN <<IF base.scheme = "https" THEN "https://" ELSE "http://",
           base.netloc>> \o h
    ELSE h

RECURSIVE ClaimedKept(_, _)
ClaimedKept(anchors, base) ==
    IF anchors = <<>> THEN <<>>
    ELSE LET a == Head(anchors)
             rest == ClaimedKept(Tail(anchors), base)
         IN IF a = None THEN rest
            ELSE IF IsHttp(ResolveHref(a[1], base))
                 THEN <<ResolveHref(a[1], base)>> \o rest
                 ELSE rest

RECURSIVE FirstOccurrences(_)
FirstOccurrences(s) ==
    IF s = <<>> THEN <<>>
    ELSE <<Head(s)>> \o
         FirstOccurrences(SelectSeq(Tail(s), LAMBDA x : x # Head(s)))

ClaimedLinks(anchors, base) ==
    LET u == FirstOccurrences(ClaimedKept(anchors, base))
    IN SubSeq(u, 1, IF Len(u) < 15 THEN Len(u) ELSE 15)

(* C14: the extracted link list is the list the specification describes;   *)
(* for the example page (anchors /about, https://x.com/a twice, final URL  *)
(* https://site.example/page) it is                                        *)
(* [https://site.example/about, https://x.com/a].                          *)
C14_LinksAsSpecified ==
    (result # None /\ page # None) =>
        /\ result[1].links = ClaimedLinks(page[1].anchors, page[1].url_final)
        /\ page[1].anchors = ExamplePage.anchors /\ page[1].url_final = UPlain
               => result[1].links =
                      <<<<"https://", "site.example", "/", "about">>, HXa>>

(* Position of the first anchor carrying href h.                           *)
FirstAnchor(anchors, h) ==
    CHOOSE i \in 1..Len(anchors) :
        /\ anchors[i] = Some(h)
        /\ \A j \in 1..(i - 1) : anchors[j] # Some(h)

(* The distinct hrefs of the page that start with http:// or https://.     *)
HttpHrefs(anchors) ==
    {anchors[i][1] : i \in {j \in 1..Len(anchors) :
                               IF anchors[j] = None THEN FALSE
                               ELSE IsHttp(anchors[j][1])}}

(* C15: in a success result `links` has no duplicates, holds only hrefs    *)
(* of the page that start with http:// or https://, has at most 15         *)
(* entries, ordered by first occurrence in the page, and links_count is    *)
(* the number of distinct such hrefs of the page (>= the length of links). *)
C15_LinksInvariant ==
    (result # None /\ page # None) =>
        LET l == result[1].links
            a == page[1].anchors
        IN /\ \A i, j \in 1..Len(l) : i # j => l[i] # l[j]
           /\ \A i \in 1..Len(l) : IsHttp(l[i]) /\ l[i] \in HttpHrefs(a)
           /\ Len(l) <= 15
           /\ \A i, j \in 1..Len(l) :
                  i < j => FirstAnchor(a, l[i]) < FirstAnchor(a, l[j])
           /\ result[1].links_count = Cardinality(HttpHrefs(a))
           /\ result[1].links_count >= Len(l)
           /\ Len(l) < 15 => Len(l) = result[1].links_count

C15_Witness ==
    /\ pc = "extracted"
    /\ result[1].links_count = 17
    /\ Len(result[1].links) = 15
    /\ Len(page[1].anchors) = 19
    /\ page[1].anchors[1] = Some(HXa)
    /\ page[1].anchors[2] = Some(HXa)

(* C16: for cleaned text of length L, content is the first 2000            *)
(* characters followed by "..." when L > 2000 and the whole text           *)
(* otherwise; content_length and character_count are L.                    *)
C16_ContentTruncation ==
    (result # None /\ page # None) =>
        LET t == page[1].text
            c == result[1].content
        IN /\ Len(t) > 2000 =>
                  /\ Len(c) = 2003
                  /\ \A i \in 1..2000 : c[i] = t[i]
                  /\ \A i \in 2001..2003 : c[i] = "."
           /\ Len(t) <= 2000 => c = t
           /\ result[1].content_length = Len(t)
           /\ result[1].character_count = Len(t)

C16_Witness ==
    /\ pc = "extracted"
    /\ Len(page[1].text) = 2001
    /\ Len(result[1].content) = 2003

====
